---- MODULE Spec2Model ----
(***************************************************************************)
(* A model of gaussian_v1.py: the four report parsers                      *)
(* (parse_xyz_content, extract_optimized_structure, extract_fchk_data,     *)
(* parse_multiwfn_surface_analysis) and the tools that change the process  *)
(* working directory (gaussian_exec, formchk, extract_fchk_data,           *)
(* analyze_esp_surface).                                                   *)
(*                                                                         *)
(* Text is a sequence of one-character strings.  A float is the pair       *)
(* <<m, k>> standing for m / 10^k with trailing zeros removed, so that     *)
(* "0", "0.0" and "-0" are one value and "1.2" and "1.20" are one value.   *)
(***************************************************************************)
EXTENDS Integers, Sequences, FiniteSets, TLC

VARIABLES pc, input, output, cwd, fs, ncalls, th

vars == <<pc, input, output, cwd, fs, ncalls, th>>

(***************************************************************************)
(* Bounds of the model.                                                    *)
(***************************************************************************)
MaxXyzLines == 4

MaxSegments == 4

MaxFchkLines == 5

MaxSurfLines == 2

MaxCalls == 3

(***************************************************************************)
(* Python text primitives.                                                 *)
(***************************************************************************)
NL == "\n"

Digit == {"0", "1", "2", "3", "4", "5", "6", "7", "8", "9"}

DigitVal(c) ==
    CASE c = "0" -> 0 [] c = "1" -> 1 [] c = "2" -> 2 [] c = "3" -> 3
      [] c = "4" -> 4 [] c = "5" -> 5 [] c = "6" -> 6 [] c = "7" -> 7
      [] c = "8" -> 8 [] c = "9" -> 9

\* str.isspace of one character (the texts of the model hold no tab or CR).
IsSpace(c) == c \in {" ", NL}

\* str.isdigit(): non-empty and every character a digit.
IsDigitStr(s) == Len(s) > 0 /\ \A i \in 1..Len(s) : s[i] \in Digit

RECURSIVE LStrip(_)
LStrip(s) ==
    IF s = <<>> THEN <<>>
    ELSE IF IsSpace(Head(s)) THEN LStrip(Tail(s)) ELSE s

RECURSIVE RStrip(_)
RStrip(s) ==
    IF s = <<>> THEN <<>>
    ELSE IF IsSpace(s[Len(s)]) THEN RStrip(SubSeq(s, 1, Len(s) - 1)) ELSE s

\* str.strip(): leading and trailing whitespace (blanks and line breaks) removed.
Strip(s) == RStrip(LStrip(s))

\* str.split(sep) for a one-character sep: "".split(sep) is [""].
RECURSIVE SplitAcc(_, _, _, _)
SplitAcc(s, sep, cur, acc) ==
    IF s = <<>> THEN Append(acc, cur)
    ELSE IF Head(s) = sep THEN SplitAcc(Tail(s), sep, <<>>, Append(acc, cur))
    ELSE SplitAcc(Tail(s), sep, Append(cur, Head(s)), acc)

SplitOn(s, sep) == SplitAcc(s, sep, <<>>, <<>>)

\* str.split() with no separator: the maximal runs of non-whitespace.
RECURSIVE FieldsAcc(_, _, _)
FieldsAcc(s, cur, acc) ==
    IF s = <<>> THEN (IF cur = <<>> THEN acc ELSE Append(acc, cur))
    ELSE IF IsSpace(Head(s))
         THEN FieldsAcc(Tail(s), <<>>, IF cur = <<>> THEN acc ELSE Append(acc, cur))
         ELSE FieldsAcc(Tail(s), Append(cur, Head(s)), acc)

Fields(s) == FieldsAcc(s, <<>>, <<>>)

\* The digits of a token as a natural number, other characters ignored.
RECURSIVE DigitsValue(_, _)
DigitsValue(s, acc) ==
    IF s = <<>> THEN acc
    ELSE IF Head(s) \in Digit THEN DigitsValue(Tail(s), 10 * acc + DigitVal(Head(s)))
    ELSE DigitsValue(Tail(s), acc)

Unsigned(tok) ==
    IF tok # <<>> /\ Head(tok) \in {"-", "+"} THEN Tail(tok) ELSE tok

\* float(tok) succeeds: an optional sign, digits with at most one point, at least
\* one digit (over the alphabet of the model: no exponent, inf or nan).
IsFloatTok(tok) ==
    LET b == Unsigned(tok) IN
        /\ b # <<>>
        /\ \A i \in 1..Len(b) : b[i] \in Digit \cup {"."}
        /\ Cardinality({i \in 1..Len(b) : b[i] = "."}) <= 1
        /\ \E i \in 1..Len(b) : b[i] \in Digit

RECURSIVE Normal(_, _)
Normal(m, k) ==
    IF k > 0 /\ m % 10 = 0 THEN Normal(m \div 10, k - 1) ELSE <<m, k>>

\* float(tok) for a token IsFloatTok accepts.
FloatVal(tok) ==
    LET b    == Unsigned(tok)
        dots == {i \in 1..Len(b) : b[i] = "."}
        k    == IF dots = {} THEN 0 ELSE Len(b) - (CHOOSE i \in dots : TRUE)
        m    == DigitsValue(b, 0)
    IN  Normal(IF Head(tok) = "-" THEN 0 - m ELSE m, k)

\* int(tok) succeeds: an optional sign and digits only.
IsIntTok(tok) == IsDigitStr(Unsigned(tok))

IntVal(tok) ==
    IF Head(tok) = "-" THEN 0 - DigitsValue(tok, 0) ELSE DigitsValue(tok, 0)

RECURSIVE JoinLines(_)
JoinLines(ls) ==
    IF ls = <<>> THEN <<>>
    ELSE IF Len(ls) = 1 THEN ls[1]
    ELSE ls[1] \o <<NL>> \o JoinLines(Tail(ls))

SeqsUpTo(S, n) == UNION {[1..k -> S] : k \in 0..n}

(***************************************************************************)
(* parse_xyz_content                                                       *)
(***************************************************************************)
\* The header test skipping the count line alone.
StartIndex_SkipOne(lines) ==
    IF Len(lines) > 0 /\ IsDigitStr(lines[1]) THEN 1 ELSE 0

\* Lines 32-33: two header lines are skipped when the first line is all digits.
StartIndex(lines) ==
    IF Len(lines) > 0 /\ IsDigitStr(lines[1]) THEN 2 ELSE 0

\* Lines 36-45: what one line adds to atoms.
AtomsOfLine(line) ==
    LET parts == Fields(line) IN
        IF Strip(line) = <<>> THEN <<>>
        ELSE IF Len(parts) >= 4
        THEN IF \A i \in 2..4 : IsFloatTok(parts[i])
             THEN << <<parts[1], <<FloatVal(parts[2]), FloatVal(parts[3]), FloatVal(parts[4])>> >> >>
             ELSE <<>>
        ELSE <<>>

\* The loop with the malformed line ending it (break for continue).
RECURSIVE AtomsOfLines_Break(_)
AtomsOfLines_Break(lines) ==
    IF lines = <<>> THEN <<>>
    ELSE IF Strip(Head(lines)) # <<>> /\ AtomsOfLine(Head(lines)) = <<>> THEN <<>>
    ELSE AtomsOfLine(Head(lines)) \o AtomsOfLines_Break(Tail(lines))

RECURSIVE AtomsOfLines(_)
AtomsOfLines(lines) ==
    IF lines = <<>> THEN <<>>
    ELSE AtomsOfLine(Head(lines)) \o AtomsOfLines(Tail(lines))

parse_xyz_content(content) ==
    LET lines == SplitOn(Strip(content), NL)
        start_index == StartIndex(lines)
    IN  AtomsOfLines(SubSeq(lines, start_index + 1, Len(lines)))

\* The lines the listings of the model are made of.
XyzPool ==
    { <<"2">>, <<"1">>, <<"0">>, <<"2", " ">>, <<>>,
      <<"c", "m">>,
      <<"C", " ", "0", " ", "1", " ", ".", "5">>,
      <<"O", " ", "-", "1", " ", "0", ".", "0", " ", "2", ".">>,
      <<"H", " ", "x", " ", "0", " ", "0">>,
      <<"N", " ", "0", " ", "0">> }

XyzInputs == {JoinLines(ls) : ls \in SeqsUpTo(XyzPool, MaxXyzLines)}

InitXyz ==
    /\ pc = "ready"
    /\ input \in XyzInputs
    /\ output = <<>>
    /\ cwd = "" /\ fs = {} /\ ncalls = 0 /\ th = <<>>

ParseXyzContent ==
    /\ pc = "ready"
    /\ output' = parse_xyz_content(input)
    /\ pc' = "done"
    /\ UNCHANGED <<input, cwd, fs, ncalls, th>>

NextXyz == ParseXyzContent

SpecXyz == InitXyz /\ [][NextXyz]_vars

(***************************************************************************)
(* extract_optimized_structure                                             *)
(*                                                                         *)
(* In a log text the marker phrases are single symbols of the alphabet:    *)
(* "Normal termination", "Optimization completed" (without its full stop), *)
(* "Standard orientation" and "-------" (seven dashes).                    *)
(***************************************************************************)
NT == "Normal termination"
OC == "Optimization completed"
SO == "Standard orientation"
DASHES == "-------"

\* Python's dynamically typed values, tagged.
PyInt(n) == [type |-> "int", value |-> n]
PyStr(s) == [type |-> "str", value |-> s]
PyFloat(v) == [type |-> "float", value |-> v]
None == [type |-> "None"]
PyList(xs) == [type |-> "list", value |-> xs]
Raised(e) == [type |-> "raise", value |-> e]

\* Lines 168-173.
atomic_num_to_symbol ==
    << "H", "He", "Li", "Be", "B", "C", "N", "O", "F", "Ne",
       "Na", "Mg", "Al", "Si", "P", "S", "Cl", "Ar", "K", "Ca" >>

\* phrase in text
HasPhrase(text, phrase) ==
    \E i \in 1..(Len(text) - Len(phrase) + 1) :
        SubSeq(text, i, i + Len(phrase) - 1) = phrase

\* re.search("Optimization completed.", line): the phrase and any one character.
MatchesConvergence(line) == \E i \in 1..(Len(line) - 1) : line[i] = OC

\* The marker tests without the convergence marker.
HasMarkers_TerminationOnly(log_content) == HasPhrase(log_content, <<NT>>)

\* Lines 183-190: both markers are in the text.
HasMarkers(log_content) ==
    HasPhrase(log_content, <<NT>>) /\ HasPhrase(log_content, <<OC, ".">>)

\* The least of a set of (1-based) indices, 0 if there is none: where a loop that
\* breaks at its first hit stops.
FirstOf(S) == IF S = {} THEN 0 ELSE CHOOSE i \in S : \A k \in S : i <= k

IsConvergenceLine(line) == MatchesConvergence(line)
IsOrientationLine(line) == HasPhrase(line, <<SO>>)
IsDashLine(line) == HasPhrase(line, <<DASHES>>)

\* Lines 196-204: the 0-based index of the header the table is read after.
HeaderIndex(log_lines) ==
    LET c == FirstOf({i \in 1..Len(log_lines) : IsConvergenceLine(log_lines[i])})
        iline == IF c = 0 THEN 0 ELSE c - 1
        h == FirstOf({i \in (iline + 1)..Len(log_lines) : IsOrientationLine(log_lines[i])})
    IN  IF h = 0 THEN iline ELSE h - 1

\* Lines 210-214 succeed: tmp[1] is an int, tmp[-3], tmp[-2], tmp[-1] are floats.
RecordParses(line) ==
    LET tmp == Fields(line) IN
        /\ Len(tmp) >= 3
        /\ IsIntTok(tmp[2])
        /\ \A k \in 0..2 : IsFloatTok(tmp[Len(tmp) - k])

\* Line 215: the atom appended for a record, the atomic number as read.
RecordAtom(line) ==
    LET tmp == Fields(line) IN
        << PyInt(IntVal(tmp[2])), FloatVal(tmp[Len(tmp) - 2]),
           FloatVal(tmp[Len(tmp) - 1]), FloatVal(tmp[Len(tmp)]) >>

\* Lines 206-215: the atoms read up to the first dashed line; a record that does
\* not parse raises.
RECURSIVE ReadRecords(_, _)
ReadRecords(lines, atoms) ==
    IF lines = <<>> THEN PyList(atoms)
    ELSE IF IsDashLine(Head(lines)) THEN PyList(atoms)
    ELSE IF ~RecordParses(Head(lines)) THEN Raised("Exception")
    ELSE ReadRecords(Tail(lines), Append(atoms, RecordAtom(Head(lines))))

\* Lines 182-220, from the text of the log file.
extract_optimized_structure(log_content) ==
    IF ~HasMarkers(log_content) THEN None
    ELSE LET log_lines == SplitOn(log_content, NL)
             iline == HeaderIndex(log_lines)
             got == ReadRecords(SubSeq(log_lines, iline + 6, Len(log_lines)), <<>>)
         IN  IF got.type = "raise" THEN None
             ELSE IF got.value = <<>> THEN None
             ELSE got

NTLine == <<" ", NT>>
OCLine == <<" ", OC, ".">>
OCOnLine == <<" ", OC, " ", "o", "n">>
SOLine == <<" ", SO, ":">>
DashLine == <<" ", DASHES>>
TextLine == <<" ", "x">>
RecC == <<"1", " ", "6", " ", "0", " ", "0", " ", ".", "5", " ", "-", "1">>
RecH == <<"2", " ", "1", " ", "0", " ", "1", " ", "0", " ", "0">>
RecBad == <<"3", " ", "x", " ", "0", " ", "0", " ", "0", " ", "0">>

Block(recs) == <<SOLine, DashLine, TextLine, TextLine, DashLine>> \o recs \o <<DashLine>>

\* The pieces the logs of the model are made of.
LogSegments ==
    { <<OCLine>>, <<OCOnLine>>, <<TextLine>>,
      Block(<<RecC>>), Block(<<RecH, RecC>>), Block(<<RecH, RecH, RecC>>),
      Block(<<>>), Block(<<RecC, RecBad>>),
      <<SOLine, DashLine, TextLine, TextLine, DashLine, RecH>> }

RECURSIVE Concat(_)
Concat(ss) == IF ss = <<>> THEN <<>> ELSE Head(ss) \o Concat(Tail(ss))

LogInputs ==
    { JoinLines(Concat(segs) \o tail) :
        segs \in SeqsUpTo(LogSegments, MaxSegments), tail \in {<<>>, <<NTLine>>} }

InitLog ==
    /\ pc = "ready"
    /\ input \in LogInputs
    /\ output = None
    /\ cwd = "" /\ fs = {} /\ ncalls = 0 /\ th = <<>>

ExtractOptimizedStructure ==
    /\ pc = "ready"
    /\ output' = extract_optimized_structure(input)
    /\ pc' = "done"
    /\ UNCHANGED <<input, cwd, fs, ncalls, th>>

NextLog == ExtractOptimizedStructure

SpecLog == InitLog /\ [][NextLog]_vars

(***************************************************************************)
(* extract_fchk_data                                                       *)
(*                                                                         *)
(* The labels "Total Energy", "Number of electrons" and "Alpha Orbital     *)
(* Energies" are single symbols of the alphabet.  The input is the list of *)
(* lines f.readlines() returns.                                            *)
(***************************************************************************)
TE == "Total Energy"
NE == "Number of electrons"
AO == "Alpha Orbital Energies"

\* A dictionary with key k set to v.
SetKey(d, k, v) == [x \in DOMAIN d \cup {k} |-> IF x = k THEN v ELSE d[x]]

\* line.split()[-1]
LastField(line) == Fields(line)[Len(Fields(line))]

\* Line 271.
InitialData == [Energy |-> None, HOMO |-> None, LUMO |-> None]

\* Lines 278-285: the scan from 0-based line i on; iline is 0 unless the
\* 'Alpha Orbital Energies' line stops the scan.
RECURSIVE ScanLines(_, _, _)
ScanLines(lines, i, data) ==
    IF i >= Len(lines) THEN [raised |-> "", data |-> data, iline |-> 0]
    ELSE
      LET line == lines[i + 1]
          badEnergy == HasPhrase(line, <<TE>>) /\ ~IsFloatTok(LastField(line))
          d1 == IF HasPhrase(line, <<TE>>) /\ ~badEnergy
                THEN SetKey(data, "Energy", PyFloat(FloatVal(LastField(line))))
                ELSE data
      IN  IF badEnergy THEN [raised |-> "ValueError", data |-> data, iline |-> 0]
          ELSE IF HasPhrase(line, <<NE>>)
          THEN IF IsIntTok(LastField(line))
               THEN ScanLines(lines, i + 1, SetKey(d1, "Ne", PyInt(IntVal(LastField(line)))))
               ELSE [raised |-> "ValueError", data |-> d1, iline |-> 0]
          ELSE IF HasPhrase(line, <<AO>>)
          THEN [raised |-> "", data |-> d1, iline |-> i]
          ELSE ScanLines(lines, i + 1, d1)

\* Lines 288-291: ceil(nbasis / 5), with Python's floor division.
NLine(nbasis) ==
    IF nbasis % 5 = 0 THEN nbasis \div 5 ELSE nbasis \div 5 + 1

\* Lines 294-295: the floats of nline lines after 0-based line iline, in order;
\* a line past the end or a token that is no float raises.
RECURSIVE ReadEnergies(_, _, _, _)
ReadEnergies(lines, iline, i, nline) ==
    IF i >= nline THEN [raised |-> "", values |-> <<>>]
    ELSE IF i + iline + 1 >= Len(lines) THEN [raised |-> "IndexError", values |-> <<>>]
    ELSE LET toks == Fields(lines[i + iline + 2])
             rest == ReadEnergies(lines, iline, i + 1, nline)
         IN  IF \E k \in 1..Len(toks) : ~IsFloatTok(toks[k])
             THEN [raised |-> "ValueError", values |-> <<>>]
             ELSE IF rest.raised # "" THEN rest
             ELSE [raised |-> "",
                   values |-> [k \in 1..Len(toks) |-> FloatVal(toks[k])] \o rest.values]

\* list[i] with Python's negative indices; InRange tells whether it raises.
InRange(list, i) == 0 - Len(list) <= i /\ i < Len(list)
PyIndex(list, i) == IF i < 0 THEN list[Len(list) + i + 1] ELSE list[i + 1]

\* The HOMO index one too high.
HomoIndex_OffByOne(ne) == ne \div 2

\* Line 296.
HomoIndex(ne) == ne \div 2 - 1

\* Line 297.
LumoIndex(ne) == ne \div 2

\* Lines 271-299, from the lines of the file: the dictionary returned, or the
\* exception raised.
extract_fchk_data(lines) ==
    LET scan == ScanLines(lines, 0, InitialData) IN
    IF scan.raised # "" THEN Raised(scan.raised)
    ELSE IF lines = <<>> THEN Raised("IndexError")
    ELSE IF Fields(lines[scan.iline + 1]) = <<>> THEN Raised("IndexError")
    ELSE IF ~IsIntTok(LastField(lines[scan.iline + 1])) THEN Raised("ValueError")
    ELSE
      LET nbasis == IntVal(LastField(lines[scan.iline + 1]))
          orb == ReadEnergies(lines, scan.iline, 0, NLine(nbasis))
          data == scan.data
      IN  IF orb.raised # "" THEN Raised(orb.raised)
          ELSE IF "Ne" \notin DOMAIN data THEN Raised("KeyError")
          ELSE IF ~InRange(orb.values, HomoIndex(data.Ne.value)) THEN Raised("IndexError")
          ELSE IF ~InRange(orb.values, LumoIndex(data.Ne.value)) THEN Raised("IndexError")
          ELSE [type |-> "dict",
                value |-> SetKey(SetKey(data,
                    "HOMO", PyFloat(PyIndex(orb.values, HomoIndex(data.Ne.value)))),
                    "LUMO", PyFloat(PyIndex(orb.values, LumoIndex(data.Ne.value))))]

\* The directories of the model.
HomeDir == "/home"
DataDir == "/data"

\* The lines the summaries of the model are made of.
FchkPool ==
    { <<TE, " ", "R", " ", "-", "7", ".", "5">>,
      <<NE, " ", "I", " ", "4">>,
      <<NE, " ", "I", " ", "2">>,
      <<NE, " ", "I", " ", "x">>,
      <<AO, " ", "N", "=", " ", "6">>,
      <<AO, " ", "N", "=", " ", "3">>,
      <<"-", "5", " ", "-", "4", " ", "-", "3", " ", "-", "2", " ", "-", "1">>,
      <<"0", " ", ".", "5", " ", "2">>,
      <<"1", " ", "x">> }

FchkInputs == SeqsUpTo(FchkPool, MaxFchkLines)

InitFchk ==
    /\ pc = "ready"
    /\ input \in FchkInputs
    /\ output = None
    /\ cwd = HomeDir
    /\ fs = {} /\ ncalls = 0 /\ th = <<>>

\* Lines 272-299 with path = DataDir: the directory is restored on line 298 only.
ExtractFchkData ==
    /\ pc = "ready"
    /\ output' = extract_fchk_data(input)
    /\ cwd' = IF output'.type = "raise" THEN DataDir ELSE cwd
    /\ pc' = "done"
    /\ UNCHANGED <<input, fs, ncalls, th>>

NextFchk == ExtractFchkData

SpecFchk == InitFchk /\ [][NextFchk]_vars

(***************************************************************************)
(* parse_multiwfn_surface_analysis                                         *)
(*                                                                         *)
(* The labels and units of the report ("Volume:", "Bohr^3", "a.u.", ...)   *)
(* are single symbols of the alphabet.  A pattern is a sequence of         *)
(* elements: a literal, \s+, a captured or uncaptured run of a character   *)
(* class, or the lazy .*? (which does not cross a line break).             *)
(***************************************************************************)
Lit(s) == [k |-> "lit", s |-> s]
WS == [k |-> "ws"]
Cap(cls) == [k |-> "cap", cls |-> cls]
Run(cls) == [k |-> "run", cls |-> cls]
Lazy == [k |-> "lazy"]

\* [\d.], [\d.-], \S and \s.
InClass(c, cls) ==
    CASE cls = "num" -> c \in Digit \cup {"."}
      [] cls = "snum" -> c \in Digit \cup {".", "-"}
      [] cls = "nonspace" -> ~IsSpace(c)
      [] cls = "space" -> IsSpace(c)

\* The length of the longest run of cls at pos.
RECURSIVE RunLen(_, _, _)
RunLen(text, pos, cls) ==
    IF pos > Len(text) THEN 0
    ELSE IF InClass(text[pos], cls) THEN 1 + RunLen(text, pos + 1, cls) ELSE 0

NoMatch == [ok |-> FALSE, caps |-> <<>>]

\* The match of pat at pos, as re matches it: greedy runs, the shortest lazy skip.
RECURSIVE MatchAt(_, _, _, _)
MatchAt(pat, text, pos, caps) ==
    IF pat = <<>> THEN [ok |-> TRUE, caps |-> caps]
    ELSE LET e == Head(pat) IN
      CASE e.k = "lit" ->
             IF pos + Len(e.s) - 1 <= Len(text) /\ SubSeq(text, pos, pos + Len(e.s) - 1) = e.s
             THEN MatchAt(Tail(pat), text, pos + Len(e.s), caps)
             ELSE NoMatch
        [] e.k = "ws" ->
             LET n == RunLen(text, pos, "space") IN
                 IF n = 0 THEN NoMatch ELSE MatchAt(Tail(pat), text, pos + n, caps)
        [] e.k = "run" ->
             LET n == RunLen(text, pos, e.cls) IN
                 IF n = 0 THEN NoMatch ELSE MatchAt(Tail(pat), text, pos + n, caps)
        [] e.k = "cap" ->
             LET n == RunLen(text, pos, e.cls) IN
                 IF n = 0 THEN NoMatch
                 ELSE MatchAt(Tail(pat), text, pos + n,
                              Append(caps, SubSeq(text, pos, pos + n - 1)))
        [] e.k = "lazy" ->
             LET S == {q \in pos..(Len(text) + 1) :
                         /\ \A j \in pos..(q - 1) : text[j] # NL
                         /\ MatchAt(Tail(pat), text, q, caps).ok}
             IN  IF S = {} THEN NoMatch
                 ELSE MatchAt(Tail(pat), text, CHOOSE q \in S : \A r \in S : q <= r, caps)

\* re.search(pat, text): the match at the leftmost position that has one.
Search(pat, text) ==
    LET S == {i \in 1..(Len(text) + 1) : MatchAt(pat, text, i, <<>>).ok} IN
        IF S = {} THEN NoMatch
        ELSE MatchAt(pat, text, CHOOSE i \in S : \A r \in S : i <= r, <<>>)

\* Value Unit ( Value Unit2 ): the tail of the volume and area patterns.
Paired(cls, unit, unit2) ==
    << WS, Cap(cls), WS, Lit(<<unit>>), WS, Lit(<<"(">>), WS, Cap(cls), WS,
       Lit(<<unit2, ")">>) >>

\* Line 324.
VolumePattern == <<Lit(<<"Volume:">>)>> \o Paired("num", "Bohr^3", "Angstrom^3")

\* Line 332.
DensityPattern ==
    <<Lit(<<"Estimated density">>), Lazy, Cap("num"), WS, Lit(<<"g/cm^3">>)>>

\* Lines 337-338.
EspMinPattern == <<Lit(<<"Minimal value:">>), WS, Cap("snum"), WS, Lit(<<"kcal/mol">>)>>
EspMaxPattern == <<Lit(<<"Maximal value:">>), WS, Cap("snum"), WS, Lit(<<"kcal/mol">>)>>

\* Lines 346-350.
area_patterns ==
    << <<"total", <<Lit(<<"Overall surface area:">>)>>
                      \o Paired("nonspace", "Bohr^2", "Angstrom^2")>>,
       <<"positive", <<Lit(<<"Positive surface area:">>)>>
                      \o Paired("num", "Bohr^2", "Angstrom^2")>>,
       <<"negative", <<Lit(<<"Negative surface area:">>)>>
                      \o Paired("num", "Bohr^2", "Angstrom^2")>> >>

Scalar(label, cls, unit) == <<Lit(<<label>>), WS, Cap(cls), WS, Lit(unit)>>

\* Lines 360-370.
stats_patterns ==
    << <<"overall_avg", Scalar("Overall average value:", "snum", <<"a.u.">>)>>,
       <<"positive_avg", Scalar("Positive average value:", "snum", <<"a.u.">>)>>,
       <<"negative_avg", Scalar("Negative average value:", "snum", <<"a.u.">>)>>,
       <<"total_variance",
         <<Lit(<<"Overall variance">>), Lazy, Lit(<<":">>), WS, Cap("num"), WS,
           Lit(<<"a.u.", "^2">>)>> >>,
       <<"positive_variance", Scalar("Positive variance:", "num", <<"a.u.", "^2">>)>>,
       <<"negative_variance", Scalar("Negative variance:", "num", <<"a.u.", "^2">>)>>,
       <<"charge_balance", <<Lit(<<"Balance of charges (nu):">>), WS, Cap("snum")>> >>,
       <<"internal_separation",
         Scalar("Internal charge separation (Pi):", "snum", <<"a.u.">>)>>,
       <<"molecular_polarity",
         Scalar("Molecular polarity index (MPI):", "num", <<"eV">>)>> >>

\* Lines 377-381.
PolarityPattern ==
    << Lit(<<"Nonpolar surface area">>), Lazy, Cap("num"), WS, Lit(<<"Angstrom^2">>), WS,
       Lit(<<"(">>), WS, Cap("num"), WS, Lit(<<"%", ")">>), WS,
       Lit(<<"Polar surface area">>), Lazy, Cap("num"), WS, Lit(<<"Angstrom^2">>), WS,
       Lit(<<"(">>), WS, Cap("num"), WS >>

\* Lines 391-395.
skew_patterns ==
    << <<"overall", <<Lit(<<"Overall skewness:">>), WS, Cap("snum")>> >>,
       <<"positive", <<Lit(<<"Positive skewness:">>), WS, Cap("snum")>> >>,
       <<"negative", <<Lit(<<"Negative skewness:">>), WS, Cap("snum")>> >> >>

\* Line 403.
MinimaPattern ==
    << Lit(<<"Global surface minimum:">>), WS, Run("nonspace"), Lit(<<" ", "a.u.", " ", "at">>),
       WS, Cap("nonspace"), WS, Cap("nonspace"), WS, Cap("nonspace"), Lit(<<" ", "Ang">>) >>

EmptyDict == [x \in {} |-> None]

\* float() of every group of a match raises on none of them.
GroupsAreFloats(m) == \A i \in 1..Len(m.caps) : IsFloatTok(m.caps[i])

Group(m, i) == PyFloat(FloatVal(m.caps[i]))

\* The keys of a table of patterns whose pattern matches.
MatchedKeys(table, text) ==
    {table[i][1] : i \in {j \in 1..Len(table) : Search(table[j][2], text).ok}}

PatternOf(table, key) == table[CHOOSE i \in 1..Len(table) : table[i][1] = key][2]

\* Lines 351-357: one entry for each area pattern that matches.
SurfaceAreaOf(text) ==
    [key \in MatchedKeys(area_patterns, text) |->
        [u \in {"Bohr^2", "Angstrom^2"} |->
            Group(Search(PatternOf(area_patterns, key), text),
                  IF u = "Bohr^2" THEN 1 ELSE 2)]]

\* Lines 371-374 and 396-399: one entry for each pattern of the table that matches.
ScalarsOf(table, text) ==
    [key \in MatchedKeys(table, text) |-> Group(Search(PatternOf(table, key), text), 1)]

\* Lines 326-330.
VolumeOf(text) ==
    LET m == Search(VolumePattern, text) IN
        IF m.ok THEN [u \in {"Bohr^3", "Angstrom^3"} |->
                        Group(m, IF u = "Bohr^3" THEN 1 ELSE 2)]
        ELSE EmptyDict

\* The density read only under a volume match.
DensityOf_UnderVolume(text) ==
    LET m == Search(DensityPattern, text) IN
        IF m.ok /\ Search(VolumePattern, text).ok THEN Group(m, 1) ELSE None

\* Lines 333-334.
DensityOf(text) ==
    LET m == Search(DensityPattern, text) IN
        IF m.ok THEN Group(m, 1) ELSE None

\* Lines 339-343: the range is set when both patterns match.
EspRangeOf(text) ==
    LET esp_min == Search(EspMinPattern, text)
        esp_max == Search(EspMaxPattern, text)
    IN  IF esp_min.ok /\ esp_max.ok
        THEN [u \in {"min_kcal/mol", "max_kcal/mol"} |->
                 IF u = "min_kcal/mol" THEN Group(esp_min, 1) ELSE Group(esp_max, 1)]
        ELSE EmptyDict

\* Lines 382-388.
PolarityOf(text) ==
    LET m == Search(PolarityPattern, text) IN
        IF m.ok
        THEN [u \in {"nonpolar_area", "nonpolar_percent", "polar_area", "polar_percent"} |->
                 Group(m, CASE u = "nonpolar_area" -> 1 [] u = "nonpolar_percent" -> 2
                            [] u = "polar_area" -> 3 [] u = "polar_percent" -> 4)]
        ELSE EmptyDict

\* Lines 404-405.
MinimaOf(text) ==
    LET m == Search(MinimaPattern, text) IN
        IF m.ok THEN PyList(<<Group(m, 1).value, Group(m, 2).value, Group(m, 3).value>>)
        ELSE None

\* Some float() the function calls raises ValueError: a group of a match that is
\* converted (the two ESP groups only when both patterns match) is no float.
SomeFloatRaises(text) ==
    \/ \E pat \in {VolumePattern, DensityPattern, PolarityPattern, MinimaPattern} :
          Search(pat, text).ok /\ ~GroupsAreFloats(Search(pat, text))
    \/ /\ Search(EspMinPattern, text).ok /\ Search(EspMaxPattern, text).ok
       /\ ~(GroupsAreFloats(Search(EspMinPattern, text))
              /\ GroupsAreFloats(Search(EspMaxPattern, text)))
    \/ \E table \in {area_patterns, stats_patterns, skew_patterns} :
          \E i \in 1..Len(table) :
              Search(table[i][2], text).ok /\ ~GroupsAreFloats(Search(table[i][2], text))

\* Lines 312-406.
parse_multiwfn_surface_analysis(log_text) ==
    IF SomeFloatRaises(log_text) THEN Raised("ValueError")
    ELSE [type |-> "dict",
          value |-> [volume |-> VolumeOf(log_text),
                     density |-> DensityOf(log_text),
                     esp_range |-> EspRangeOf(log_text),
                     surface_area |-> SurfaceAreaOf(log_text),
                     esp_stats |-> ScalarsOf(stats_patterns, log_text),
                     polarity |-> PolarityOf(log_text),
                     skewness |-> ScalarsOf(skew_patterns, log_text),
                     minima |-> MinimaOf(log_text)]]

RECURSIVE JoinWords(_)
JoinWords(ws) ==
    IF ws = <<>> THEN <<>>
    ELSE IF Len(ws) = 1 THEN ws[1]
    ELSE ws[1] \o <<" ">> \o JoinWords(Tail(ws))

DensityLine ==
    JoinWords(<< <<"Estimated density">>, <<"(", "M", ")", ":">>, <<"1", ".", "2">>,
                 <<"g/cm^3">> >>)

EspMinLine == JoinWords(<< <<"Minimal value:">>, <<"-", "3">>, <<"kcal/mol">> >>)

EspMaxLine == JoinWords(<< <<"Maximal value:">>, <<"4">>, <<"kcal/mol">> >>)

VolumeLine ==
    JoinWords(<< <<"Volume:">>, <<"5">>, <<"Bohr^3">>, <<"(">>, <<".", "7">>,
                 <<"Angstrom^3", ")">> >>)

AreaLine(label, v) ==
    JoinWords(<< <<label>>, <<v>>, <<"Bohr^2">>, <<"(">>, <<"2">>, <<"Angstrom^2", ")">> >>)

PolarityLines ==
    JoinWords(<< <<"Nonpolar surface area">>, <<"(", "x", ")", ":">>, <<"5">>,
                 <<"Angstrom^2">>, <<"(">>, <<"6">>, <<"%", ")">> >>)
    \o <<NL>> \o
    JoinWords(<< <<"Polar surface area">>, <<"(", "x", ")", ":">>, <<"8">>,
                 <<"Angstrom^2">>, <<"(">>, <<"9">>, <<"%", ")">> >>)

\* The lines the reports of the model are made of.
SurfPool ==
    { VolumeLine, DensityLine, EspMinLine, EspMaxLine,
      JoinWords(<< <<"Estimated density">>, <<".">>, <<"g/cm^3">> >>),
      JoinWords(<< <<"Minimal value:">>, <<"-">>, <<"kcal/mol">> >>),
      AreaLine("Overall surface area:", "9"),
      AreaLine("Positive surface area:", "4"),
      AreaLine("Negative surface area:", "5"),
      JoinWords(<< <<"Overall average value:">>, <<"-", ".", "1">>, <<"a.u.">> >>),
      JoinWords(<< <<"Positive average value:">>, <<".", "2">>, <<"a.u.">> >>),
      JoinWords(<< <<"Negative average value:">>, <<"-", ".", "3">>, <<"a.u.">> >>),
      JoinWords(<< <<"Overall variance">>, <<"(", "s", ")", ":">>, <<".", "4">>,
                   <<"a.u.", "^2">> >>),
      JoinWords(<< <<"Positive variance:">>, <<".", "5">>, <<"a.u.", "^2">> >>),
      JoinWords(<< <<"Negative variance:">>, <<".", "6">>, <<"a.u.", "^2">> >>),
      JoinWords(<< <<"Balance of charges (nu):">>, <<".", "1">> >>),
      JoinWords(<< <<"Internal charge separation (Pi):">>, <<".", "2">>, <<"a.u.">> >>),
      JoinWords(<< <<"Molecular polarity index (MPI):">>, <<"3">>, <<"eV">> >>),
      PolarityLines,
      JoinWords(<< <<"Nonpolar surface area">>, <<"(", "x", ")", ":">>, <<"5">>,
                   <<"Angstrom^2">>, <<"(">>, <<"6">>, <<"%", ")">> >>),
      JoinWords(<< <<"Overall skewness:">>, <<"-", "1">> >>),
      JoinWords(<< <<"Positive skewness:">>, <<"2">> >>),
      JoinWords(<< <<"Negative skewness:">>, <<"-", "3">> >>),
      JoinWords(<< <<"Overall skewness:">>, <<"1", "-", "2">> >>),
      JoinWords(<< <<"Global surface minimum:">>, <<"-", ".", "2">>, <<"a.u.">>, <<"at">>,
                   <<".", "3">>, <<"1">>, <<"-", "2">>, <<"Ang">> >>),
      <<"x">> }

SurfInputs == {JoinLines(ls) : ls \in SeqsUpTo(SurfPool, MaxSurfLines)}

InitSurf ==
    /\ pc = "ready"
    /\ input \in SurfInputs
    /\ output = None
    /\ cwd = "" /\ fs = {} /\ ncalls = 0 /\ th = <<>>

ParseMultiwfnSurfaceAnalysis ==
    /\ pc = "ready"
    /\ output' = parse_multiwfn_surface_analysis(input)
    /\ pc' = "done"
    /\ UNCHANGED <<input, cwd, fs, ncalls, th>>

NextSurf == ParseMultiwfnSurfaceAnalysis

SpecSurf == InitSurf /\ [][NextSurf]_vars

(***************************************************************************)
(* The tools that change the working directory, called one after another.  *)
(* fs is the set of files that exist, as <<directory, name>>; the          *)
(* directories of Dirs exist, MissingDir does not.                         *)
(***************************************************************************)
WorkDir == "/work"
MissingDir == "/missing"
Dirs == {HomeDir, DataDir, WorkDir}
Paths == {DataDir, WorkDir, MissingDir}

\* What job.fchk holds in each directory.
JobFchk(dir) ==
    IF dir = DataDir
    THEN << <<TE, " ", "R", " ", "-", "7", ".", "5">>, <<NE, " ", "I", " ", "4">>,
            <<AO, " ", "N", "=", " ", "3">>, <<"0", " ", ".", "5", " ", "2">> >>
    ELSE << <<TE, " ", "R", " ", "-", "1">>, <<NE, " ", "I", " ", "2">>,
            <<AO, " ", "N", "=", " ", "5">>,
            <<"-", "5", " ", "-", "4", " ", "-", "3", " ", "-", "2", " ", "-", "1">> >>

\* What job.log holds in each directory.
JobLog(dir) ==
    JoinLines(<<OCLine>> \o Block(IF dir = DataDir THEN <<RecC>> ELSE <<RecH, RecC>>)
              \o <<NTLine>>)

TempFiles(dir) == {<<dir, "multiwfn_script.txt">>, <<dir, "output.log">>}

InitSeq ==
    /\ pc = "idle"
    /\ input = <<>>
    /\ output = None
    /\ cwd = HomeDir
    /\ fs = {}
    /\ ncalls = 0
    /\ th = <<>>

\* Lines 120-151.  ran is how g16 ended: "ok", "nonzero", "timeout" or "missing".
CallGaussianExec(path, ran) ==
    /\ ncalls < MaxCalls
    /\ ncalls' = ncalls + 1
    /\ IF path \notin Dirs
       THEN /\ output' = Raised("RuntimeError")
            /\ UNCHANGED <<cwd, fs>>
       ELSE IF ran = "ok"
       THEN /\ fs' = fs \cup {<<path, "job.gjf">>, <<path, "job.chk">>, <<path, "job.log">>}
            /\ cwd' = cwd
            /\ output' = PyInt(0)
       ELSE /\ fs' = fs \cup {<<path, "job.gjf">>}
            /\ cwd' = path
            /\ output' = Raised("RuntimeError")
    /\ UNCHANGED <<pc, input, th>>

\* Lines 239-254.  ran tells whether subprocess.run returned (with any exit code).
CallFormchk(path, ran) ==
    /\ ncalls < MaxCalls
    /\ ncalls' = ncalls + 1
    /\ IF path \notin Dirs
       THEN /\ output' = None
            /\ UNCHANGED <<cwd, fs>>
       ELSE IF ran
       THEN /\ fs' = IF <<path, "job.chk">> \in fs THEN fs \cup {<<path, "job.fchk">>} ELSE fs
            /\ cwd' = cwd
            /\ output' = PyInt(0)
       ELSE /\ fs' = fs
            /\ cwd' = path
            /\ output' = None
    /\ UNCHANGED <<pc, input, th>>

\* Lines 271-299.
CallExtractFchkData(path) ==
    /\ ncalls < MaxCalls
    /\ ncalls' = ncalls + 1
    /\ IF path \notin Dirs
       THEN /\ output' = Raised("FileNotFoundError")
            /\ cwd' = cwd
       ELSE IF <<path, "job.fchk">> \notin fs
       THEN /\ output' = Raised("FileNotFoundError")
            /\ cwd' = path
       ELSE /\ output' = extract_fchk_data(JobFchk(path))
            /\ cwd' = IF output'.type = "raise" THEN path ELSE cwd
    /\ UNCHANGED <<pc, input, fs, th>>

\* Lines 420-468.  has_multiwfn is os.path.isfile(multiwfn_path), ran tells whether
\* Multiwfn exited with code 0, and report is what it printed.  The finally block
\* removes the temporary files of the directory the process is in by then.
CallAnalyzeEspSurface(path, has_multiwfn, ran, report) ==
    /\ ncalls < MaxCalls
    /\ ncalls' = ncalls + 1
    /\ IF ~has_multiwfn
       THEN /\ output' = Raised("FileNotFoundError")
            /\ UNCHANGED <<cwd, fs>>
       ELSE IF path \notin Dirs
       THEN /\ output' = Raised("FileNotFoundError")
            /\ cwd' = cwd
            /\ fs' = fs \ TempFiles(cwd)
       ELSE IF ~ran
       THEN /\ output' = Raised("CalledProcessError")
            /\ cwd' = path
            /\ fs' = fs \ TempFiles(path)
       ELSE IF parse_multiwfn_surface_analysis(report).type = "raise"
       THEN /\ output' = parse_multiwfn_surface_analysis(report)
            /\ cwd' = path
            /\ fs' = fs \ TempFiles(path)
       ELSE /\ output' = parse_multiwfn_surface_analysis(report)
            /\ cwd' = cwd
            /\ fs' = (fs \cup TempFiles(path)) \ TempFiles(cwd)
    /\ UNCHANGED <<pc, input, th>>

Reports == {DensityLine, JoinWords(<< <<"Estimated density">>, <<".">>, <<"g/cm^3">> >>)}

NextSeq ==
    \/ \E path \in Paths, ran \in {"ok", "nonzero", "timeout", "missing"} :
          CallGaussianExec(path, ran)
    \/ \E path \in Paths, ran \in BOOLEAN : CallFormchk(path, ran)
    \/ \E path \in Paths : CallExtractFchkData(path)
    \/ \E path \in Paths, has_multiwfn \in BOOLEAN, ran \in BOOLEAN, report \in Reports :
          CallAnalyzeEspSurface(path, has_multiwfn, ran, report)

SpecSeq == InitSeq /\ [][NextSeq]_vars

(***************************************************************************)
(* Two threads, each making one call of an extraction operation.  A step   *)
(* is one system call of the operation (os.getcwd, os.chdir, open) with    *)
(* the computation that follows it; the working directory cwd is the one   *)
(* of the process, shared by the threads.                                  *)
(***************************************************************************)
Threads == {1, 2}

Call(op, arg) == [op |-> op, arg |-> arg, pc |-> "start", path_old |-> "", result |-> None]

Calls ==
    {Call("extract_fchk_data", path) : path \in Paths}
    \cup {Call("extract_optimized_structure", path) : path \in {DataDir, WorkDir}}
    \cup {Call("parse_xyz_content", <<"C", " ", "0", " ", "1", " ", ".", "5">>)}
    \cup {Call("parse_multiwfn_surface_analysis", DensityLine)}

JobFiles ==
    {<<dir, name>> : dir \in {DataDir, WorkDir}, name \in {"job.fchk", "job.log"}}

InitConc ==
    /\ pc = "threads"
    /\ input = <<>>
    /\ output = None
    /\ cwd = HomeDir
    /\ fs = JobFiles
    /\ ncalls = 0
    /\ th \in [Threads -> Calls]

\* Line 272: path_old = os.getcwd()
FchkGetcwd(t) ==
    /\ th[t].op = "extract_fchk_data" /\ th[t].pc = "start"
    /\ th' = [th EXCEPT ![t].path_old = cwd, ![t].pc = "chdir"]
    /\ UNCHANGED <<pc, input, output, cwd, fs, ncalls>>

\* Line 273: os.chdir(path)
FchkChdir(t) ==
    /\ th[t].pc = "chdir"
    /\ IF th[t].arg \in Dirs
       THEN /\ cwd' = th[t].arg
            /\ th' = [th EXCEPT ![t].pc = "open"]
       ELSE /\ cwd' = cwd
            /\ th' = [th EXCEPT ![t].pc = "done", ![t].result = Raised("FileNotFoundError")]
    /\ UNCHANGED <<pc, input, output, fs, ncalls>>

\* Lines 274-297: open(fchk_name) names the file of the directory the process is in
\* at that moment; the lines read are then decoded.
FchkOpen(t) ==
    /\ th[t].pc = "open"
    /\ LET r == IF <<cwd, "job.fchk">> \in fs THEN extract_fchk_data(JobFchk(cwd))
                ELSE Raised("FileNotFoundError")
       IN  th' = [th EXCEPT ![t].result = r,
                            ![t].pc = IF r.type = "raise" THEN "done" ELSE "restore"]
    /\ UNCHANGED <<pc, input, output, cwd, fs, ncalls>>

\* Lines 298-299: os.chdir(path_old); return data
FchkRestore(t) ==
    /\ th[t].pc = "restore"
    /\ cwd' = th[t].path_old
    /\ th' = [th EXCEPT ![t].pc = "done"]
    /\ UNCHANGED <<pc, input, output, fs, ncalls>>

\* Lines 175-220: open(path + log_name) with the absolute path given.
LogOpen(t) ==
    /\ th[t].op = "extract_optimized_structure" /\ th[t].pc = "start"
    /\ th' = [th EXCEPT ![t].pc = "done",
                        ![t].result = IF <<th[t].arg, "job.log">> \in fs
                                      THEN extract_optimized_structure(JobLog(th[t].arg))
                                      ELSE None]
    /\ UNCHANGED <<pc, input, output, cwd, fs, ncalls>>

XyzCall(t) ==
    /\ th[t].op = "parse_xyz_content" /\ th[t].pc = "start"
    /\ th' = [th EXCEPT ![t].pc = "done",
                        ![t].result = PyList(parse_xyz_content(th[t].arg))]
    /\ UNCHANGED <<pc, input, output, cwd, fs, ncalls>>

SurfCall(t) ==
    /\ th[t].op = "parse_multiwfn_surface_analysis" /\ th[t].pc = "start"
    /\ th' = [th EXCEPT ![t].pc = "done",
                        ![t].result = parse_multiwfn_surface_analysis(th[t].arg)]
    /\ UNCHANGED <<pc, input, output, cwd, fs, ncalls>>

NextConc ==
    \E t \in Threads :
        \/ FchkGetcwd(t)
        \/ FchkChdir(t)
        \/ FchkOpen(t)
        \/ FchkRestore(t)
        \/ LogOpen(t)
        \/ XyzCall(t)
        \/ SurfCall(t)

SpecConc == InitConc /\ [][NextConc]_vars

(***************************************************************************)
(* Claims about parse_multiwfn_surface_analysis                            *)
(***************************************************************************)
Matches(pat) == Search(pat, input).ok

Returned == pc = "done" /\ output.type = "dict"

\* The fields of the result other than the two of the ESP range are there exactly
\* when their pattern matches.
OwnPatternFields(v) ==
    /\ (v.volume # EmptyDict) <=> Matches(VolumePattern)
    /\ (v.density # None) <=> Matches(DensityPattern)
    /\ \A i \in 1..Len(area_patterns) :
          (area_patterns[i][1] \in DOMAIN v.surface_area) <=> Matches(area_patterns[i][2])
    /\ \A i \in 1..Len(stats_patterns) :
          (stats_patterns[i][1] \in DOMAIN v.esp_stats) <=> Matches(stats_patterns[i][2])
    /\ (v.polarity # EmptyDict) <=> Matches(PolarityPattern)
    /\ \A i \in 1..Len(skew_patterns) :
          (skew_patterns[i][1] \in DOMAIN v.skewness) <=> Matches(skew_patterns[i][2])
    /\ (v.minima # None) <=> Matches(MinimaPattern)

DensityOnly(v) ==
    /\ v.density = PyFloat(<<12, 1>>)
    /\ v.volume = EmptyDict /\ v.esp_range = EmptyDict /\ v.surface_area = EmptyDict
    /\ v.esp_stats = EmptyDict /\ v.polarity = EmptyDict /\ v.skewness = EmptyDict
    /\ v.minima = None

AllPatterns ==
    {VolumePattern, DensityPattern, EspMinPattern, EspMaxPattern, PolarityPattern,
     MinimaPattern}
    \cup {area_patterns[i][2] : i \in 1..Len(area_patterns)}
    \cup {stats_patterns[i][2] : i \in 1..Len(stats_patterns)}
    \cup {skew_patterns[i][2] : i \in 1..Len(skew_patterns)}

Alone(c) ==
    CASE c.op = "extract_fchk_data" ->
           IF <<c.arg, "job.fchk">> \in JobFiles THEN extract_fchk_data(JobFchk(c.arg))
           ELSE Raised("FileNotFoundError")
      [] c.op = "extract_optimized_structure" ->
           IF <<c.arg, "job.log">> \in JobFiles
           THEN extract_optimized_structure(JobLog(c.arg)) ELSE None
      [] c.op = "parse_xyz_content" -> PyList(parse_xyz_content(c.arg))
      [] c.op = "parse_multiwfn_surface_analysis" ->
           parse_multiwfn_surface_analysis(c.arg)

\* C9: under every interleaving of two calls, each call returns what it returns
\* when run alone.
C9_SameResultAsAlone ==
    \A t \in Threads : th[t].pc = "done" => th[t].result = Alone(th[t])

\* C10: between calls the working directory is the one the process started in.
C10_CwdRestored == cwd = HomeDir

(***************************************************************************)
(* Claims about parse_xyz_content                                          *)
(***************************************************************************)
RawLines(content) == SplitOn(content, NL)

\* A symbol and three float coordinates.
IsAtomLine(line) ==
    LET parts == Fields(line) IN
        Len(parts) = 4 /\ \A i \in 2..4 : IsFloatTok(parts[i])

AtomOf(line) ==
    LET parts == Fields(line) IN
        <<parts[1], <<FloatVal(parts[2]), FloatVal(parts[3]), FloatVal(parts[4])>> >>

\* A count line N, a comment line, then exactly N atom lines.
CountedLines(ls) ==
    /\ Len(ls) >= 2
    /\ IsDigitStr(ls[1])
    /\ Len(ls) = DigitsValue(ls[1], 0) + 2
    /\ \A i \in 3..Len(ls) : IsAtomLine(ls[i])

\* The lines of a counted listing: those of the text, a final line break allowed.
ListingLines(content) ==
    LET ls == RawLines(content) IN
        IF CountedLines(ls) THEN ls
        ELSE IF Len(ls) >= 1 /\ ls[Len(ls)] = <<>> /\ CountedLines(SubSeq(ls, 1, Len(ls) - 1))
        THEN SubSeq(ls, 1, Len(ls) - 1)
        ELSE <<>>

\* C1: a listing made of a count line N, a comment line and exactly N well-formed
\* atom lines parses to exactly N atoms, the i-th being the i-th atom line's symbol
\* and coordinates.
C1_CountedListing ==
    (pc = "done" /\ ListingLines(input) # <<>>) =>
        LET ls == ListingLines(input) IN
            /\ Len(output) = DigitsValue(ls[1], 0)
            /\ \A i \in 1..Len(output) : output[i] = AtomOf(ls[i + 2])

\* A counted listing of two atoms, whose comment line is itself shaped like an atom
\* line, has been parsed.
C1_Witness ==
    /\ pc = "done"
    /\ ListingLines(input) # <<>>
    /\ Len(ListingLines(input)) = 4
    /\ IsAtomLine(ListingLines(input)[2])
    /\ Len(output) = 2

\* A line that adds no atom: fewer than 4 fields, or a coordinate that is no float.
Malformed(line) ==
    LET parts == Fields(line) IN
        Len(parts) < 4 \/ ~(\A i \in 2..4 : IsFloatTok(parts[i]))

RemoveAt(ls, j) == SubSeq(ls, 1, j - 1) \o SubSeq(ls, j + 1, Len(ls))

WithoutLine(content, j) == JoinLines(RemoveAt(RawLines(content), j))

\* C8 as stated: removing any malformed line leaves the result unchanged.
C8_AnyMalformedLine ==
    pc = "done" =>
        \A j \in 1..Len(RawLines(input)) :
            Malformed(RawLines(input)[j]) =>
                parse_xyz_content(WithoutLine(input, j)) = output

\* The index of the first line that is not blank (one past the end when all are).
FirstNonBlank(ls) ==
    LET S == {i \in 1..Len(ls) : Strip(ls[i]) # <<>>} IN
        IF S = {} THEN Len(ls) + 1 ELSE CHOOSE i \in S : \A k \in S : i <= k

\* Line j is neither the first non-blank line nor, under a count header, the
\* comment line that follows it.
InBody(content, j) ==
    LET ls == RawLines(content)
        f  == FirstNonBlank(ls)
        hdr == IsDigitStr(SplitOn(Strip(content), NL)[1])
    IN  j < f \/ j > f + (IF hdr THEN 1 ELSE 0)

\* C8 (amended): removing a malformed line that is neither the first non-blank line
\* nor the comment line of a count header leaves the result unchanged: the line adds
\* no atom and every other line is parsed as before.
C8_BodyMalformedLine ==
    pc = "done" =>
        \A j \in 1..Len(RawLines(input)) :
            (Malformed(RawLines(input)[j]) /\ InBody(input, j)) =>
                parse_xyz_content(WithoutLine(input, j)) = output

\* A malformed line stands between two atom lines that were both returned.
C8_Witness ==
    /\ pc = "done"
    /\ Len(output) = 2
    /\ \E j \in 2..(Len(RawLines(input)) - 1) :
          /\ Malformed(RawLines(input)[j])
          /\ Strip(RawLines(input)[j]) # <<>>
          /\ InBody(input, j)
          /\ IsAtomLine(RawLines(input)[j - 1])
          /\ IsAtomLine(RawLines(input)[j + 1])

(***************************************************************************)
(* Claims about extract_optimized_structure                                *)
(***************************************************************************)
IsLiteralConvergenceLine(line) == HasPhrase(line, <<OC, ".">>)

\* The 1-based index of the first 'Standard orientation' line at or after the first
\* 'Optimization completed.' line, 0 if there is none.
ClaimedHeader(log_lines) ==
    LET c == FirstOf({i \in 1..Len(log_lines) : IsLiteralConvergenceLine(log_lines[i])}) IN
        IF c = 0 THEN 0 ELSE FirstOf({i \in c..Len(log_lines) : IsOrientationLine(log_lines[i])})

\* The 1-based index of the first dashed line from index from on, 0 if none.
TableEnd(log_lines, from) == FirstOf({i \in from..Len(log_lines) : IsDashLine(log_lines[i])})

\* A well-formed table under the header at h: four heading lines, then at least one
\* record, each of six fields that parse, then a dashed line.
WellFormedTable(log_lines, h) ==
    LET e == TableEnd(log_lines, h + 5) IN
        /\ h > 0
        /\ e > h + 5
        /\ \A i \in (h + 5)..(e - 1) :
              Len(Fields(log_lines[i])) = 6 /\ RecordParses(log_lines[i])

Coordinates(atom) == <<atom[2], atom[3], atom[4]>>

\* C2: with both markers and a well-formed table under the first 'Standard
\* orientation' header at or after the first 'Optimization completed.' line, the
\* result is one atom per record of that table, in record order.
C2_FirstBlockAfterConvergence ==
    LET log_lines == SplitOn(input, NL)
        h == ClaimedHeader(log_lines)
        e == TableEnd(log_lines, h + 5)
    IN  (pc = "done" /\ HasPhrase(input, <<NT>>) /\ WellFormedTable(log_lines, h)) =>
            /\ output.type = "list"
            /\ Len(output.value) = e - (h + 5)
            /\ \A i \in 1..Len(output.value) :
                  Coordinates(output.value[i])
                      = Coordinates(RecordAtom(log_lines[h + 4 + i]))

\* C3: without 'Normal termination', or without 'Optimization completed.', the
\* result is None, whatever else the log holds.
C3_NoneWithoutMarkers ==
    (pc = "done" /\ (~HasPhrase(input, <<NT>>) \/ ~HasPhrase(input, <<OC, ".">>))) =>
        output = None

\* A log with 'Normal termination' and a complete table of records, but no
\* 'Optimization completed.', was answered None.
C3_Witness ==
    /\ pc = "done"
    /\ HasPhrase(input, <<NT>>)
    /\ ~HasPhrase(input, <<OC, ".">>)
    /\ HasPhrase(input, JoinLines(Block(<<RecH, RecC>>)))
    /\ output = None

\* C4: an atom read from a record whose atomic number is in 1..20 carries the
\* element symbol of the table for that number.
C4_SymbolsMapped ==
    (pc = "done" /\ output.type = "list") =>
        LET log_lines == SplitOn(input, NL)
            iline == HeaderIndex(log_lines)
        IN  \A i \in 1..Len(output.value) :
                LET z == IntVal(Fields(log_lines[iline + 5 + i])[2]) IN
                    z \in 1..20 =>
                        output.value[i][1] = PyStr(atomic_num_to_symbol[z])

(***************************************************************************)
(* Claims about extract_fchk_data                                          *)
(***************************************************************************)
HasTE(line) == HasPhrase(line, <<TE>>)
HasNE(line) == HasPhrase(line, <<NE>>)
HasAO(line) == HasPhrase(line, <<AO>>)

\* The 1-based index of the 'Alpha Orbital Energies' line, 0 if there is none.
AlphaLine(lines) == FirstOf({i \in 1..Len(lines) : HasAO(lines[i])})

\* The last line the scan reads.
ScanEnd(lines) == IF AlphaLine(lines) = 0 THEN Len(lines) ELSE AlphaLine(lines)

CeilDiv5(n) == (n + 4) \div 5

AllFloats(line) ==
    Fields(line) # <<>> /\ \A k \in 1..Len(Fields(line)) : IsFloatTok(Fields(line)[k])

FloatsOf(line) == [k \in 1..Len(Fields(line)) |-> FloatVal(Fields(line)[k])]

RECURSIVE ConcatFloats(_, _, _)
ConcatFloats(lines, from, to) ==
    IF from > to THEN <<>>
    ELSE FloatsOf(lines[from]) \o ConcatFloats(lines, from + 1, to)

\* One energy line and one electron-count line before the orbital line, a positive
\* orbital count n, and ceil(n/5) lines of floats after it.
WellFormedSummary(lines) ==
    LET k == AlphaLine(lines) IN
        /\ k > 0
        /\ Cardinality({i \in 1..k : HasTE(lines[i])}) = 1
        /\ Cardinality({i \in 1..k : HasNE(lines[i])}) = 1
        /\ \A i \in 1..k : HasTE(lines[i]) => IsFloatTok(LastField(lines[i]))
        /\ \A i \in 1..k : HasNE(lines[i]) => IsIntTok(LastField(lines[i]))
        /\ IsIntTok(LastField(lines[k]))
        /\ IntVal(LastField(lines[k])) >= 1
        /\ k + CeilDiv5(IntVal(LastField(lines[k]))) <= Len(lines)
        /\ \A i \in (k + 1)..(k + CeilDiv5(IntVal(LastField(lines[k])))) :
              AllFloats(lines[i])

ElectronCount(lines) ==
    IntVal(LastField(lines[CHOOSE i \in 1..AlphaLine(lines) : HasNE(lines[i])]))

OrbitalEnergies(lines) ==
    LET k == AlphaLine(lines) IN
        ConcatFloats(lines, k + 1, k + CeilDiv5(IntVal(LastField(lines[k]))))

\* C5: for a well-formed summary with an even electron count e >= 2 and more than
\* e/2 orbital energies, HOMO is the energy at zero-based index e/2 - 1 and LUMO the
\* one at e/2.
C5_HomoLumo ==
    (pc = "done" /\ WellFormedSummary(input)) =>
        LET e == ElectronCount(input)
            orb == OrbitalEnergies(input)
        IN  (e >= 2 /\ e % 2 = 0 /\ Len(orb) > e \div 2) =>
                /\ output.type = "dict"
                /\ output.value.HOMO = PyFloat(orb[e \div 2])
                /\ output.value.LUMO = PyFloat(orb[e \div 2 + 1])

\* A summary of 4 electrons and 6 orbitals on two lines was decoded, HOMO and LUMO
\* being different energies.
C5_Witness ==
    /\ pc = "done"
    /\ WellFormedSummary(input)
    /\ ElectronCount(input) = 4
    /\ IntVal(LastField(input[AlphaLine(input)])) = 6
    /\ output.type = "dict"
    /\ output.value.HOMO # output.value.LUMO

MissingTE(lines) == \A i \in 1..ScanEnd(lines) : ~HasTE(lines[i])
MissingNE(lines) == \A i \in 1..ScanEnd(lines) : ~HasNE(lines[i])
MissingAO(lines) == AlphaLine(lines) = 0

\* The line the orbital count is read from.
CountLine(lines) == IF AlphaLine(lines) = 0 THEN 1 ELSE AlphaLine(lines)

\* A token the function parses is no number.
BadToken(lines) ==
    \/ \E i \in 1..ScanEnd(lines) : HasTE(lines[i]) /\ ~IsFloatTok(LastField(lines[i]))
    \/ \E i \in 1..ScanEnd(lines) : HasNE(lines[i]) /\ ~IsIntTok(LastField(lines[i]))
    \/ /\ lines # <<>>
       /\ Fields(lines[CountLine(lines)]) # <<>>
       /\ ~IsIntTok(LastField(lines[CountLine(lines)]))
    \/ /\ lines # <<>>
       /\ Fields(lines[CountLine(lines)]) # <<>>
       /\ IsIntTok(LastField(lines[CountLine(lines)]))
       /\ \E i \in (CountLine(lines) + 1)..
                   (CountLine(lines) + CeilDiv5(IntVal(LastField(lines[CountLine(lines)])))) :
              i <= Len(lines) /\ Fields(lines[i]) # <<>> /\ ~AllFloats(lines[i])

\* C6 as stated: a missing marker or a token that is no number always ends in an
\* exception, and no returned record has a field left at its default.
C6_Strict ==
    pc = "done" =>
        /\ (MissingTE(input) \/ MissingNE(input) \/ MissingAO(input) \/ BadToken(input))
              => output.type = "raise"
        /\ output.type = "dict" =>
              \A k \in {"Energy", "HOMO", "LUMO"} : output.value[k] # None


====
